---------------------------- MODULE Spec2Model ----------------------------
(***************************************************************************)
(* Chat.fun WhatsApp bot (src/index.js): the per-user conversation state   *)
(* machine over the in-memory stores userWallets, userState,               *)
(* launchedTokens, portfolios and the market counter globalTokensSold.     *)
(*                                                                         *)
(* Message bodies are strings, handled character by character with Len,    *)
(* SubSeq and \o.  JavaScript numbers are records (see Fin, NaN, Infinity) *)
(* so that the non-finite values parseInt/parseFloat can return are kept.  *)
(***************************************************************************)
EXTENDS Integers, Sequences, FiniteSets, Bags, TLC

(***************************************************************************)
(* Characters.  The four emoji the code tests for are written as single    *)
(* ASCII characters that occur nowhere else in a message.                  *)
(***************************************************************************)
CheckMark == "^"     \* U+2705, "launch" confirmation marker
CrossMark == "~"     \* U+274C, "cancel" marker
Rocket == "@"        \* U+1F680
MoneyWings == "%"    \* U+1F4B8

UpperChars == "ABCDEFGHIJKLMNOPQRSTUVWXYZ"
LowerChars == "abcdefghijklmnopqrstuvwxyz"
DigitChars == "0123456789"
\* bs58 alphabet: no 0, O, I, l
Base58Chars == "123456789ABCDEFGHJKLMNPQRSTUVWXYZabcdefghijkmnopqrstuvwxyz"

CharAt(s, i) == SubSeq(s, i, i)

IndexIn(alphabet, c) ==
  IF \E i \in 1..Len(alphabet) : CharAt(alphabet, i) = c
    THEN CHOOSE i \in 1..Len(alphabet) : CharAt(alphabet, i) = c
    ELSE 0

IsDigit(c) == IndexIn(DigitChars, c) > 0
DigitVal(c) == IndexIn(DigitChars, c) - 1
IsSpace(c) == c = " "

\* s with every character of `from` replaced by the one at the same place in `to`
\* (the string is halved so that the recursion stays shallow)
RECURSIVE MapChars(_, _, _)
MapChars(s, from, to) ==
  IF s = "" THEN ""
  ELSE IF Len(s) = 1
    THEN LET i == IndexIn(from, s) IN IF i > 0 THEN CharAt(to, i) ELSE s
  ELSE LET h == Len(s) \div 2
       IN MapChars(SubSeq(s, 1, h), from, to) \o MapChars(SubSeq(s, h + 1, Len(s)), from, to)

\* String.prototype.toUpperCase / toLowerCase
toUpperCase(s) == MapChars(s, LowerChars, UpperChars)
toLowerCase(s) == MapChars(s, UpperChars, LowerChars)

\* character classes of the regular expressions: \s and [A-Za-z0-9]
SpaceChars == " "
AlnumChars == UpperChars \o LowerChars \o DigitChars

\* every character of s is in the class
AllChars(s, class) == \A i \in 1..Len(s) : IndexIn(class, CharAt(s, i)) > 0

\* length of the longest prefix of s made of characters of the class
SpanLen(s, class) ==
  IF AllChars(s, class) THEN Len(s)
  ELSE (CHOOSE i \in 1..Len(s) :
          /\ IndexIn(class, CharAt(s, i)) = 0
          /\ \A j \in 1..(i - 1) : IndexIn(class, CharAt(s, j)) > 0) - 1

trimStart(s) == SubSeq(s, SpanLen(s, SpaceChars) + 1, Len(s))

trimEnd(s) ==
  IF AllChars(s, SpaceChars) THEN ""
  ELSE SubSeq(s, 1, CHOOSE i \in 1..Len(s) :
                      ~IsSpace(CharAt(s, i)) /\ \A j \in (i + 1)..Len(s) : IsSpace(CharAt(s, j)))

\* String.prototype.trim
trim(s) == trimEnd(trimStart(s))

\* String.prototype.startsWith / includes
startsWith(s, p) == Len(s) >= Len(p) /\ SubSeq(s, 1, Len(p)) = p
includes(s, p) == \E i \in 1..(Len(s) - Len(p) + 1) : SubSeq(s, i, i + Len(p) - 1) = p

\* s.replace(c, ""): the first occurrence of the one-character string c is removed
replaceFirst(s, c) ==
  IF includes(s, c)
    THEN LET i == CHOOSE k \in 1..Len(s) :
                    CharAt(s, k) = c /\ \A j \in 1..(k - 1) : CharAt(s, j) # c
         IN SubSeq(s, 1, i - 1) \o SubSeq(s, i + 1, Len(s))
    ELSE s

\* s.replace(/c/g, ""): every occurrence is removed
RECURSIVE replaceAll(_, _)
replaceAll(s, c) ==
  IF s = "" THEN ""
  ELSE IF Len(s) = 1 THEN (IF s = c THEN "" ELSE s)
  ELSE LET h == Len(s) \div 2
       IN replaceAll(SubSeq(s, 1, h), c) \o replaceAll(SubSeq(s, h + 1, Len(s)), c)

\* index of the first whitespace character of s, or Len(s) + 1
FirstSpace(s) ==
  IF \E i \in 1..Len(s) : IsSpace(CharAt(s, i))
    THEN CHOOSE i \in 1..Len(s) :
           IsSpace(CharAt(s, i)) /\ \A j \in 1..(i - 1) : ~IsSpace(CharAt(s, j))
    ELSE Len(s) + 1

\* s.split(/\s+/): the pieces between maximal runs of whitespace
RECURSIVE split(_)
split(s) ==
  LET i == FirstSpace(s)
  IN IF i > Len(s) THEN <<s>>
     ELSE <<SubSeq(s, 1, i - 1)>> \o split(trimStart(SubSeq(s, i, Len(s))))

\* parts.join(" ")
RECURSIVE join(_)
join(parts) ==
  IF parts = <<>> THEN ""
  ELSE IF Len(parts) = 1 THEN parts[1]
  ELSE parts[1] \o " " \o join(Tail(parts))



(***************************************************************************)
(* JavaScript numbers.  A finite number is sign, whole part w and          *)
(* millionths f (0..999999), which is exact for every decimal literal of   *)
(* at most six fraction digits; k tells finite, NaN, +-Infinity and null   *)
(* (an unset `let amount = null`) apart.                                   *)
(***************************************************************************)
Num(k, neg, w, f) == [k |-> k, neg |-> neg, w |-> w, f |-> f]
Fin(w) == Num("fin", FALSE, w, 0)
NaN == Num("nan", FALSE, 0, 0)
Infinity == Num("inf", FALSE, 0, 0)
NegInfinity == Num("inf", TRUE, 0, 0)
Null == Num("null", FALSE, 0, 0)

isNaN(x) == x.k = "nan"
IsZero(x) == x.k = "fin" /\ x.w = 0 /\ x.f = 0
\* ToBoolean: null, NaN and 0 are falsy
Truthy(x) == x.k \in {"fin", "inf"} /\ ~IsZero(x)
\* a || b on numbers
OrElse(a, b) == IF Truthy(a) THEN a ELSE b

FinLt(a, b) ==
  IF a.neg /\ ~b.neg THEN TRUE
  ELSE IF ~a.neg /\ b.neg THEN FALSE
  ELSE IF ~a.neg THEN a.w < b.w \/ (a.w = b.w /\ a.f < b.f)
  ELSE b.w < a.w \/ (a.w = b.w /\ b.f < a.f)

\* a < b, false when either side is NaN
Lt(a, b) ==
  IF a.k = "nan" \/ b.k = "nan" THEN FALSE
  ELSE IF a.k = "inf" THEN a.neg /\ ~(b.k = "inf" /\ b.neg)
  ELSE IF b.k = "inf" THEN ~b.neg
  ELSE FinLt(a, b)

\* a <= b, false when either side is NaN
Le(a, b) == a.k # "nan" /\ b.k # "nan" /\ ~Lt(b, a)
Gt(a, b) == Lt(b, a)

\* a + b for token counts: a, b are whole numbers >= 0, +Infinity or NaN
Plus(a, b) ==
  IF a.k = "nan" \/ b.k = "nan" THEN NaN
  ELSE IF a.k = "inf" \/ b.k = "inf" THEN Infinity
  ELSE Fin(a.w + b.w)

\* a - b for token counts: a, b are whole numbers >= 0, +Infinity or NaN
Minus(a, b) ==
  IF a.k = "nan" \/ b.k = "nan" THEN NaN
  ELSE IF a.k = "inf" /\ b.k = "inf" THEN NaN
  ELSE IF a.k = "inf" THEN Infinity
  ELSE IF b.k = "inf" THEN NegInfinity
  ELSE IF a.w >= b.w THEN Fin(a.w - b.w)
  ELSE Num("fin", TRUE, b.w - a.w, 0)

\* Math.max(0, x): NaN if x is NaN
MathMax0(x) == IF x.k = "nan" THEN NaN ELSE IF Lt(x, Fin(0)) THEN Fin(0) ELSE x

(***************************************************************************)
(* parseInt(s, 10) and parseFloat(s).  A run of MaxDigits or more          *)
(* significant digits is beyond Number.MAX_VALUE and gives Infinity; the   *)
(* messages of the model hold no run of 10..MaxDigits-1 digits and no      *)
(* exponent part.                                                          *)
(***************************************************************************)
RECURSIVE DecVal(_)
DecVal(d) ==
  IF d = "" THEN 0 ELSE DecVal(SubSeq(d, 1, Len(d) - 1)) * 10 + DigitVal(CharAt(d, Len(d)))

\* a digit string without its leading zeros
StripZeros(d) == SubSeq(d, SpanLen(d, "0") + 1, Len(d))

\* 1.8e308 < 10^309 <= any whole number of 310 digits
MaxDigits == 310

\* the value of the significant digits d
WholeOf(neg, d) ==
  IF Len(d) >= MaxDigits THEN Num("inf", neg, 0, 0)
  ELSE Num("fin", neg /\ DecVal(d) # 0, DecVal(d), 0)

WholeVal(neg, digits) == WholeOf(neg, StripZeros(digits))

\* the first six fraction digits, as millionths
FracVal(digits) == DecVal(SubSeq(digits \o "000000", 1, 6))

\* an optional sign, then the rest
SignLen(s) == IF s # "" /\ CharAt(s, 1) \in {"+", "-"} THEN 1 ELSE 0
Negative(s) == s # "" /\ CharAt(s, 1) = "-"
Unsigned(s) == SubSeq(s, SignLen(s) + 1, Len(s))

\* rest starts with n digits
IntOf(neg, rest, n) == IF n = 0 THEN NaN ELSE WholeVal(neg, SubSeq(rest, 1, n))
IntAt(s) == IntOf(Negative(s), Unsigned(s), SpanLen(Unsigned(s), DigitChars))

parseInt(text) == IntAt(trimStart(text))

\* what follows the decimal point after the n leading digits of rest
FracDigits(rest, n) ==
  IF Len(rest) > n /\ CharAt(rest, n + 1) = "." THEN SubSeq(rest, n + 2, Len(rest)) ELSE ""

FloatVal(neg, whole, f) ==
  IF whole.k = "inf" THEN Num("inf", neg, 0, 0)
  ELSE Num("fin", neg /\ (whole.w # 0 \/ f # 0), whole.w, f)

\* rest starts with n digits, then maybe a point and the m leading digits of frac
FloatOf(neg, rest, n, frac, m) ==
  IF startsWith(rest, "Infinity") THEN Num("inf", neg, 0, 0)
  ELSE IF n = 0 /\ m = 0 THEN NaN
  ELSE FloatVal(neg, WholeVal(FALSE, IF n = 0 THEN "0" ELSE SubSeq(rest, 1, n)),
                FracVal(SubSeq(frac, 1, m)))

FloatFrac(neg, rest, n, frac) == FloatOf(neg, rest, n, frac, SpanLen(frac, DigitChars))
FloatDigits(neg, rest, n) == FloatFrac(neg, rest, n, FracDigits(rest, n))
FloatAt(s) == FloatDigits(Negative(s), Unsigned(s), SpanLen(Unsigned(s), DigitChars))

parseFloat(text) == FloatAt(trimStart(text))

(***************************************************************************)
(* What the handlers read off a message                                    *)
(***************************************************************************)
\* /^[A-Z0-9]{1,8}$/
\* the class [A-Z0-9]
TickerChars == UpperChars \o DigitChars
ValidTicker(t) == Len(t) >= 1 /\ Len(t) <= 8 /\ AllChars(t, TickerChars)

\* text.includes(CheckMark) || /^launch$/i.test(text)
IsAccept(text) == includes(text, CheckMark) \/ toLowerCase(text) = "launch"
\* text.includes(CrossMark) || /^cancel$/i.test(text)
IsCancel(text) == includes(text, CrossMark) \/ toLowerCase(text) = "cancel"

\* the first parts[i], i >= 2 (0-based), whose parseFloat is not NaN, else 0
RECURSIVE FirstNumber(_, _)
FirstNumber(parts, i) ==
  IF i > Len(parts) THEN Fin(0)
  ELSE IF ~isNaN(parseFloat(parts[i])) THEN parseFloat(parts[i])
  ELSE FirstNumber(parts, i + 1)

\* /([0-9]*\.?[0-9]+)/ can match at place i of p
StartsNumber(p, i) ==
  \/ IsDigit(CharAt(p, i))
  \/ (CharAt(p, i) = "." /\ i < Len(p) /\ IsDigit(CharAt(p, i + 1)))

\* length of the match at the start of rest, which starts with n digits
MatchLen(rest, n) ==
  IF Len(rest) > n + 1 /\ CharAt(rest, n + 1) = "." /\ IsDigit(CharAt(rest, n + 2))
    THEN n + 1 + SpanLen(SubSeq(rest, n + 2, Len(rest)), DigitChars)
    ELSE n

MatchAt(rest) == SubSeq(rest, 1, MatchLen(rest, SpanLen(rest, DigitChars)))

\* p.match(/([0-9]*\.?[0-9]+)/): the leftmost match, or "" for no match
NumberMatch(p) ==
  IF \E i \in 1..Len(p) : StartsNumber(p, i)
    THEN MatchAt(SubSeq(p, CHOOSE k \in 1..Len(p) :
                             StartsNumber(p, k) /\ \A j \in 1..(k - 1) : ~StartsNumber(p, j),
                        Len(p)))
    ELSE ""

\* handleInstantBuy, lines 288-292: the fallback when the loop left solAmount at 0
SolAmount(parts, first) ==
  IF IsZero(first) /\ Len(parts) >= 3 /\ parts[3] # "" /\ NumberMatch(parts[3]) # ""
    THEN parseFloat(NumberMatch(parts[3]))
    ELSE first

\* handleInstantBuy, lines 278-292: the ticker and SOL amount the command names
\* (parts has at least two elements)
InstantArgs(parts) ==
  [ticker |-> toUpperCase(replaceFirst(parts[2], "$")),
   solAmount |-> SolAmount(parts, FirstNumber(parts, 3))]

\* handleSellCommand, lines 320-321: the amount after one more part that parses to v
SellAmount(v, amount) == IF ~isNaN(v) /\ Gt(v, Fin(0)) THEN v ELSE amount

\* handleSellCommand, lines 316-322: the loop over parts.slice(1); a null ticker is ""
\* (the code only ever tests !ticker, which holds of both)
RECURSIVE SellScan(_, _, _, _)
SellScan(parts, i, ticker, amount) ==
  IF i > Len(parts) THEN [ticker |-> ticker, amount |-> amount]
  ELSE SellScan(parts, i + 1,
                IF includes(parts[i], "$") THEN toUpperCase(replaceFirst(parts[i], "$"))
                ELSE ticker,
                SellAmount(parseInt(replaceAll(parts[i], ",")), amount))

\* handleSellCommand, lines 324-335: the fallback guesses after the loop; last is
\* parseInt of the last part
SellGuess(parts, scan, last) ==
  [ticker |-> IF scan.ticker = "" /\ parts[2] # ""
                   /\ isNaN(parseInt(replaceAll(parts[2], ",")))
                THEN toUpperCase(parts[2]) ELSE scan.ticker,
   amount |-> IF ~Truthy(scan.amount) /\ ~isNaN(last) THEN last ELSE scan.amount]

\* handleSellCommand, lines 316-335: the ticker and amount the command names
\* (parts has at least two elements)
SellArgs(parts) ==
  SellGuess(parts, SellScan(parts, 2, "", Null),
            parseInt(replaceAll(parts[Len(parts)], ",")))

StartsWithDigit(s) == s # "" /\ IsDigit(CharAt(s, 1))
SpaceThenDollar(s) == s # "" /\ IsSpace(CharAt(s, 1)) /\ startsWith(trimStart(s), "$")
SpaceThenDigit(s) == s # "" /\ IsSpace(CharAt(s, 1)) /\ StartsWithDigit(trimStart(s))

\* /^buy\s+\$/i
IsBuyText(lowered) ==
  startsWith(lowered, "buy") /\ SpaceThenDollar(SubSeq(lowered, 4, Len(lowered)))

\* rest starts with n letters and digits: {1,8} of them, then \s+[0-9]
TickerThenAmount(rest, n) ==
  n >= 1 /\ n <= 8 /\ SpaceThenDigit(SubSeq(rest, n + 1, Len(rest)))

\* /^\$[A-Za-z0-9]{1,8}\s+[0-9]/
IsTickerAmountText(body) ==
  /\ startsWith(body, "$")
  /\ TickerThenAmount(SubSeq(body, 2, Len(body)), SpanLen(SubSeq(body, 2, Len(body)), AlnumChars))

\* handleIncoming, lines 427-469: the branch a message takes when its sender has a
\* wallet and no active flow; lowered is body.toLowerCase()
Route(body, lowered) ==
  IF body = "1" \/ includes(lowered, "launch token") \/ lowered = Rocket
       \/ includes(lowered, "/launch")
    THEN "launch"
  ELSE IF body = "2" \/ includes(lowered, "buy token") \/ includes(lowered, MoneyWings)
       \/ startsWith(lowered, "/buy")
    THEN (IF startsWith(lowered, "/buy") THEN "instant_buy" ELSE "buy_menu")
  ELSE IF body = "3" \/ includes(lowered, "portfolio") \/ includes(lowered, "my portfolio")
       \/ includes(lowered, "/portfolio")
    THEN "portfolio"
  ELSE IF body = "4" \/ includes(lowered, "trending") \/ includes(lowered, "trending launches")
    THEN "trending"
  ELSE IF IsBuyText(lowered) \/ IsTickerAmountText(body) THEN "buy_text"
  ELSE IF startsWith(lowered, "/sell") \/ startsWith(lowered, "sell ") THEN "sell"
  ELSE IF startsWith(lowered, "/ping") THEN "ping"
  ELSE "menu"

Command(body) == Route(body, toLowerCase(body))

(***************************************************************************)
(* Wallet import.  bs58.decode, JSON.parse and Keypair.fromSecretKey are   *)
(* library calls: the two texts below stand for the encodings of two valid *)
(* 64-byte key pairs, and every other text of the model fails to decode    *)
(* or to validate (it throws inside the try block).                        *)
(***************************************************************************)
Base58Key == "4NMwxzmYbrq6Qd3nTQUQbSBhLSMe5tpCgF9hkjQDwJXo2a7XGkRtVscB1uEvfP8yZ5Hi3KpWzTAxLdM6qrNYobC"
JsonKey == "[174,47,154,16,202,193,206,113,199,190,53,133,169,175,31,56,222,53,138,189,224,216,117,173,10,149,53,45,73,251,237,246,15,185,186,82,177,240,148,69,241,227,167,80,141,89,240,121,121,35,172,247,68,251,226,218,48,63,176,109,168,89,238,135]"

\* Keypair.fromSecretKey(decode(raw)).publicKey.toBase58(), or "" where it throws
PublicKeyOf(raw) ==
  IF startsWith(raw, "[")
    THEN (IF raw = JsonKey THEN "2KW2XRd9kwqet15Aha2oK3tYvd3nWbTFH1MBiRAv1BE1" ELSE "")
    ELSE (IF raw = Base58Key THEN "7xKXtg2CW87d97TXJSDpbD5jBkheTqA83TZRuJosgAsU" ELSE "")


\* isLikelyPrivateKey, lines 46-50, on text.trim() and its words
KeyShaped(trimmed, words) ==
  \/ startsWith(trimmed, "[")
  \/ (Len(words) >= 12 /\ Len(words) <= 24)
  \/ (Len(trimmed) >= 32 /\ Len(trimmed) <= 100 /\ AllChars(trimmed, Base58Chars))

isLikelyPrivateKey(text) == KeyShaped(trim(text), split(trim(text)))

(***************************************************************************)
(* The messages of the model.  At each point of a conversation the model   *)
(* lets a user send the messages of Inbox; Msgs is all of them.            *)
(***************************************************************************)
Users == {"+15550001", "+15550002"}
FirstUser == "+15550001"

Zeros10 == "0000000000"
Zeros100 == Zeros10 \o Zeros10 \o Zeros10 \o Zeros10 \o Zeros10
              \o Zeros10 \o Zeros10 \o Zeros10 \o Zeros10 \o Zeros10
\* a whole number of 311 digits
HugeNumber == "1" \o Zeros100 \o Zeros100 \o Zeros100 \o Zeros10
SeedPhrase == "abandon ability able about above absent absorb abstract absurd abuse access accident"

ImportMsgs == {"/import " \o Base58Key, JsonKey, "/import", "/import abc", SeedPhrase, "[1,2,3]"}

CommandMsgs ==
  {"/launch", "2", "/portfolio", "trending", "/ping", "hello",
   "/buy $CKING 0.000002", "/buy $CKING 0.00003", "/buy $CKING Infinity",
   "/buy $CKING 0", "/buy $NOPE 0.000002", "Buy $cking 0.000002",
   "/sell $CKING 1", "/sell $CKING 3", "/sell $CKING " \o HugeNumber, "/sell CKING"}

NameMsgs == {"Pepe King"}
TickerMsgs == {"$cking", "/launch"}
SupplyMsgs == {"50", "150", "2000000000", "/sell $CKING 1"}
LiquidityMsgs == {"0.5", "0.4", "/ping"}
DescriptionMsgs == {"to the moon"}
CommunityMsgs == {"t.me/pepeking"}
ConfirmMsgs == {CheckMark \o " Launch", CrossMark \o " Cancel", "launch", "/launch"}
SelectMsgs == {"$cking", "$nope", "/launch"}
AmountMsgs == {"0.000002", "0.00003", "Infinity", "0", "/sell $CKING 1"}

\* messages no Inbox offers: what the handlers make of them is examined in every
\* state, but the state machine does not follow them
OtherMsgs == {" ", "1.5", "$trending", "/buy $TRENDING 0.000002", "/sell $TRENDING 1"}

Msgs ==
  ImportMsgs \cup CommandMsgs \cup NameMsgs \cup TickerMsgs \cup SupplyMsgs
    \cup LiquidityMsgs \cup DescriptionMsgs \cup CommunityMsgs \cup ConfirmMsgs
    \cup SelectMsgs \cup AmountMsgs \cup OtherMsgs


(***************************************************************************)
(* A message as the handlers read it: the trimmed body with everything the *)
(* code computes from the body alone (the words, the numbers parsed off    *)
(* it, the regular expressions tested on it).  Messages is the table of    *)
(* these readings, one per message of the model.                           *)
(***************************************************************************)
Reading(text, parts) ==
  [text |-> text,
   parts |-> parts,
   command |-> Command(text),
   isImport |-> startsWith(toLowerCase(text), "/import"),
   likelyKey |-> isLikelyPrivateKey(text),
   ticker |-> toUpperCase(replaceFirst(text, "$")),
   validTicker |-> ValidTicker(toUpperCase(replaceFirst(text, "$"))),
   supply |-> parseInt(replaceAll(text, ",")),
   number |-> parseFloat(text),
   accept |-> IsAccept(text),
   cancel |-> IsCancel(text),
   buyTicker |-> toUpperCase(trim(replaceFirst(text, "$"))),
   instant |-> IF Len(parts) >= 2 THEN InstantArgs(parts)
               ELSE [ticker |-> "", solAmount |-> Fin(0)],
   sell |-> IF Len(parts) >= 2 THEN SellArgs(parts) ELSE [ticker |-> "", amount |-> Null]]

\* (rawBody || "").trim() and body.split(/\s+/)
Read(body) == Reading(body, split(body))
Messages == [m \in Msgs |-> Read(trim(m))]
Message(rawBody) == Messages[rawBody]

(***************************************************************************)
(* In-memory stores.  A JavaScript object used as a dictionary is a        *)
(* function whose DOMAIN is the set of keys present.                       *)
(***************************************************************************)
VARIABLES
  userWallets,        \* phone -> [publicKey, secretKey]
  userState,          \* phone -> [step, data]
  launchedTokens,     \* TICKER -> [name, ticker, supply, liquidity, description, community, owner]
  portfolios,         \* phone -> (TICKER -> amountTokens)
  globalTokensSold,   \* mock market state
  inflight            \* requests to /incoming whose callback has not run yet

vars == <<userWallets, userState, launchedTokens, portfolios, globalTokensSold, inflight>>

EmptyMap == [k \in {} |-> 0]
Has(map, key) == key \in DOMAIN map
Put(map, key, val) == [k \in DOMAIN map \cup {key} |-> IF k = key THEN val ELSE map[k]]
Del(map, key) == [k \in DOMAIN map \ {key} |-> map[k]]

\* the stores as one value, so that a handler is a function from stores to stores
Stores ==
  [userWallets |-> userWallets, userState |-> userState, launchedTokens |-> launchedTokens,
   portfolios |-> portfolios, globalTokensSold |-> globalTokensSold]

\* what a handler returns: the stores after it ran and which reply it built
Result(s, reply) == [s |-> s, reply |-> reply]

(***************************************************************************)
(* Market model                                                            *)
(***************************************************************************)
\* 1 / BASE_PRICE: BASE_PRICE = 0.000001 SOL is one millionth, the unit of Num.f
BASE_PRICE_INV == 1000000
\* the 1e7 of getTokenPrice
SCALE == 10000000
\* the flat tokens-per-SOL rate used when sol / priceNow is 0 or NaN
FLAT_RATE == 48000
\* launch_supply: supply > 1_000_000_000 is rejected
MAX_SUPPLY == 1000000000
\* Math.floor(d.supply * 0.01)
SEED_DIVISOR == 100

\* bounds of the model: finite token counts above MaxTokens and SOL amounts above
\* MaxSolMicro millionths are not followed
MaxTokens == 3
MaxSolMicro == 40

\* getTokenPrice: BASE_PRICE * (1 + globalTokensSold / 1e7), in units of BASE_PRICE / 1e7
getTokenPrice(sold) ==
  IF sold.k = "fin" THEN Fin(SCALE + sold.w) ELSE sold

\* a token count the model does not hold (see MaxTokens)
Beyond == Fin(MaxTokens + 1)
SolModelled(sol) == sol.w = 0 /\ sol.f <= MaxSolMicro

\* Math.floor((sol / priceNow) || (sol * 48000)) for sol > 0 or sol = +Infinity:
\* sol / priceNow is +Infinity for sol = Infinity and a finite price, 0 for a finite
\* sol and an infinite price, NaN for Infinity / Infinity and for a NaN price
BuyTokens(sol, priceNow) ==
  IF sol.k = "fin" /\ ~SolModelled(sol) THEN Beyond
  ELSE IF sol.k = "fin" /\ priceNow.k = "fin"
    THEN Fin((sol.f * SCALE) \div priceNow.w)
  ELSE IF sol.k = "inf" THEN Infinity
  ELSE Fin((sol.f * FLAT_RATE) \div BASE_PRICE_INV)

(***************************************************************************)
(* Wallet import                                                           *)
(***************************************************************************)
\* tryImportWallet, lines 95-108: the key pair validated, pk its public key
Imported(s, from, raw, pk) ==
  [success |-> TRUE,
   s |-> [s EXCEPT
            !.userWallets = Put(@, from, [publicKey |-> pk, secretKey |-> raw]),
            !.portfolios = IF Has(@, from) THEN @ ELSE Put(@, from, EmptyMap)]]

\* faulty variant of ImportRaw: the wallet is stored before the key pair is validated
ImportRawStoredFirst(s, from, raw) ==
  [success |-> PublicKeyOf(raw) # "", s |-> Imported(s, from, raw, PublicKeyOf(raw)).s]

\* tryImportWallet on raw = rawText.trim()
ImportRaw(s, from, raw) ==
  IF PublicKeyOf(raw) = "" THEN [success |-> FALSE, s |-> s]
  ELSE Imported(s, from, raw, PublicKeyOf(raw))

tryImportWallet(s, from, rawText) == ImportRaw(s, from, trim(rawText))

(***************************************************************************)
(* Launch flow.  A handler takes the stores s, the sender and the message  *)
(* msg as read (see Reading); msg.text is the body.                        *)
(***************************************************************************)
startLaunchFlow(s, from) ==
  Result([s EXCEPT !.userState = Put(@, from, [step |-> "launch_name", data |-> EmptyMap])],
         "launch_start")

\* st.data[field] = val and st.step = next, in place in userState[from]
SetStep(s, from, field, val, next) ==
  [s EXCEPT !.userState[from] = [step |-> next, data |-> Put(@.data, field, val)]]

\* continueLaunchFlow, lines 193-202: the record stored in launchedTokens
TokenRecord(s, from, d) ==
  [name |-> d.name, ticker |-> d.ticker, supply |-> d.supply,
   liquidity |-> d.liquidity, description |-> d.description, community |-> d.community,
   owner |-> IF Has(s.userWallets, from) THEN s.userWallets[from].publicKey ELSE "null"]

\* continueLaunchFlow, lines 191-207: the token is registered
RegisterToken(s, from) ==
  [s EXCEPT
     !.launchedTokens = Put(@, s.userState[from].data.ticker,
                            TokenRecord(s, from, s.userState[from].data)),
     !.globalTokensSold = Plus(@, Fin(s.userState[from].data.supply.w \div SEED_DIVISOR)),
     !.userState = Del(@, from)]

\* continueLaunchFlow, lines 133-143
LaunchTickerStep(s, from, ticker, valid) ==
  IF ~valid
    THEN Result(SetStep(s, from, "ticker", ticker, "launch_ticker"), "launch_ticker_invalid")
  ELSE IF Has(s.launchedTokens, ticker)
    THEN Result(SetStep(s, from, "ticker", ticker, "launch_ticker"), "launch_ticker_exists")
  ELSE Result(SetStep(s, from, "ticker", ticker, "launch_supply"), "launch_ticker_set")

\* faulty variant of LaunchSupplyStep: a valid supply moves the flow past the liquidity step
LaunchSupplyStepSkipping(s, from, supply) ==
  IF isNaN(supply) \/ Le(supply, Fin(0)) \/ Gt(supply, Fin(MAX_SUPPLY))
    THEN Result(s, "launch_supply_invalid")
  ELSE Result(SetStep(s, from, "supply", supply, "launch_description"), "launch_supply_set")

\* continueLaunchFlow, lines 145-153
LaunchSupplyStep(s, from, supply) ==
  IF isNaN(supply) \/ Le(supply, Fin(0)) \/ Gt(supply, Fin(MAX_SUPPLY))
    THEN Result(s, "launch_supply_invalid")
  ELSE Result(SetStep(s, from, "supply", supply, "launch_liquidity"), "launch_supply_set")

\* continueLaunchFlow, lines 155-163
LaunchLiquidityStep(s, from, liquidity) ==
  IF isNaN(liquidity) \/ Lt(liquidity, Num("fin", FALSE, 0, 500000))
    THEN Result(s, "launch_liquidity_invalid")
  ELSE Result(SetStep(s, from, "liquidity", liquidity, "launch_description"),
              "launch_liquidity_set")

\* faulty variant of LaunchConfirmStep: a reply that is neither accept nor cancel ends the flow
LaunchConfirmStepClearing(s, from, msg) ==
  IF msg.accept THEN Result(RegisterToken(s, from), "launch_live")
  ELSE IF msg.cancel
    THEN Result([s EXCEPT !.userState = Del(@, from)], "launch_cancelled")
  ELSE Result([s EXCEPT !.userState = Del(@, from)], "launch_confirm_again")

\* continueLaunchFlow, lines 189-218
LaunchConfirmStep(s, from, msg) ==
  IF msg.accept THEN Result(RegisterToken(s, from), "launch_live")
  ELSE IF msg.cancel
    THEN Result([s EXCEPT !.userState = Del(@, from)], "launch_cancelled")
  ELSE Result(s, "launch_confirm_again")

\* continueLaunchFlow, lines 126-221: the switch on st.step
LaunchStep(s, from, msg, step) ==
  IF step = "launch_name" THEN
    Result(SetStep(s, from, "name", msg.text, "launch_ticker"), "launch_name_set")
  ELSE IF step = "launch_ticker" THEN LaunchTickerStep(s, from, msg.ticker, msg.validTicker)
  ELSE IF step = "launch_supply" THEN LaunchSupplyStep(s, from, msg.supply)
  ELSE IF step = "launch_liquidity" THEN LaunchLiquidityStep(s, from, msg.number)
  ELSE IF step = "launch_description" THEN
    Result(SetStep(s, from, "description", msg.text, "launch_community"),
           "launch_description_set")
  ELSE IF step = "launch_community" THEN
    Result(SetStep(s, from, "community", msg.text, "launch_confirm"), "launch_final_check")
  ELSE IF step = "launch_confirm" THEN LaunchConfirmStep(s, from, msg)
  ELSE Result(s, "launch_unexpected")

continueLaunchFlow(s, from, msg) ==
  IF ~Has(s.userState, from) THEN Result(s, "launch_none")
  ELSE LaunchStep(s, from, msg, s.userState[from].step)

(***************************************************************************)
(* Buy flow, instant buy, sell                                             *)
(***************************************************************************)
startBuyFlow_selectTicker(s, from) ==
  IF DOMAIN s.launchedTokens = {}
    THEN Result([s EXCEPT !.userState = Del(@, from)], "buy_no_tokens")
    ELSE Result([s EXCEPT !.userState =
                   Put(@, from, [step |-> "buy_select_ticker", data |-> EmptyMap])],
                "buy_which_token")

\* portfolios[from][ticker] || 0
Held(s, from, ticker) ==
  IF Has(s.portfolios, from) /\ Has(s.portfolios[from], ticker)
    THEN OrElse(s.portfolios[from][ticker], Fin(0))
    ELSE Fin(0)

\* portfolios[from] = portfolios[from] || {}; portfolios[from][ticker] = qty
SetHeld(pf, from, ticker, qty) ==
  Put(pf, from, Put(IF Has(pf, from) THEN pf[from] ELSE EmptyMap, ticker, qty))

\* continueBuyFlow, lines 257-262: tokens are credited and the flow ends
FlowCredit(s, from, ticker, tokens) ==
  [s EXCEPT
     !.portfolios = SetHeld(@, from, ticker, Plus(Held(s, from, ticker), tokens)),
     !.globalTokensSold = Plus(@, tokens),
     !.userState = Del(@, from)]

\* faulty variant of FlowBuy: the flat rate whatever the price
FlowBuyFlat(s, from, ticker, sol) == FlowCredit(s, from, ticker, BuyTokens(sol, NaN))

\* continueBuyFlow, lines 253-262
FlowBuy(s, from, ticker, sol) ==
  FlowCredit(s, from, ticker, BuyTokens(sol, getTokenPrice(s.globalTokensSold)))

\* faulty variant of BuySelectStep: the ticker is taken without looking it up
BuySelectStepUnchecked(s, from, ticker) ==
  Result(SetStep(s, from, "ticker", ticker, "buy_amount"), "buy_how_much")

\* continueBuyFlow, lines 240-246
BuySelectStep(s, from, ticker) ==
  IF ~Has(s.launchedTokens, ticker) THEN Result(s, "buy_flow_not_found")
  ELSE Result(SetStep(s, from, "ticker", ticker, "buy_amount"), "buy_how_much")

\* continueBuyFlow, lines 248-269
BuyAmountStep(s, from, ticker, sol) ==
  IF isNaN(sol) \/ Le(sol, Fin(0)) THEN Result(s, "buy_flow_invalid_amount")
  ELSE Result(FlowBuy(s, from, ticker, sol), "buy_flow_bought")

\* continueBuyFlow, lines 239-271: the switch on st.step
BuyStep(s, from, msg, st) ==
  IF st.step = "buy_select_ticker" THEN BuySelectStep(s, from, msg.buyTicker)
  ELSE IF st.step = "buy_amount" THEN BuyAmountStep(s, from, st.data.ticker, msg.number)
  ELSE Result(s, "buy_unexpected")

continueBuyFlow(s, from, msg) ==
  IF ~Has(s.userState, from) THEN Result(s, "buy_none")
  ELSE BuyStep(s, from, msg, s.userState[from])

\* handleInstantBuy, lines 300-302: tokens are credited
InstantCredit(s, from, ticker, tokens) ==
  [s EXCEPT
     !.portfolios = SetHeld(@, from, ticker, Plus(Held(s, from, ticker), tokens)),
     !.globalTokensSold = Plus(@, tokens)]

\* handleInstantBuy, lines 297-302
InstantBuy(s, from, ticker, solAmount) ==
  InstantCredit(s, from, ticker, BuyTokens(solAmount, getTokenPrice(s.globalTokensSold)))

\* handleInstantBuy, lines 294-302, on the ticker and amount read off the parts
InstantBuyArgs(s, from, a) ==
  IF ~Has(s.launchedTokens, a.ticker) THEN Result(s, "buy_not_found")
  ELSE IF isNaN(a.solAmount) \/ Le(a.solAmount, Fin(0)) THEN Result(s, "buy_invalid_amount")
  ELSE Result(InstantBuy(s, from, a.ticker, a.solAmount), "buy_bought")

\* handleInstantBuy(from, body.split(/\s+/))
handleInstantBuy(s, from, msg) ==
  IF Len(msg.parts) < 2 THEN Result(s, "buy_usage")
  ELSE InstantBuyArgs(s, from, msg.instant)

\* faulty variant of HoldsEnough: the comparison with the amount is left out
HoldsSome(s, from, ticker, amount) ==
  /\ Has(s.portfolios, from)
  /\ Has(s.portfolios[from], ticker)
  /\ Truthy(s.portfolios[from][ticker])

\* handleSellCommand, line 338: the holdings test that lets a sell through
HoldsEnough(s, from, ticker, amount) ==
  /\ Has(s.portfolios, from)
  /\ Has(s.portfolios[from], ticker)
  /\ Truthy(s.portfolios[from][ticker])
  /\ ~Lt(s.portfolios[from][ticker], OrElse(amount, Fin(0)))

\* handleSellCommand, lines 346-347
Sell(s, from, ticker, amount) ==
  [s EXCEPT
     !.portfolios[from][ticker] = Minus(@, amount),
     !.globalTokensSold = MathMax0(Minus(@, amount))]

\* handleSellCommand, lines 337-350, on the ticker and amount read off the parts
SellArgsChecked(s, from, a) ==
  IF a.ticker = "" THEN Result(s, "sell_no_ticker")
  ELSE IF ~HoldsEnough(s, from, a.ticker, a.amount) THEN Result(s, "sell_not_held")
  ELSE IF ~Truthy(a.amount) \/ Le(a.amount, Fin(0)) THEN Result(s, "sell_invalid_amount")
  ELSE Result(Sell(s, from, a.ticker, a.amount), "sell_sold")

\* handleSellCommand(from, body.split(/\s+/))
handleSellCommand(s, from, msg) ==
  IF Len(msg.parts) < 2 THEN Result(s, "sell_usage")
  ELSE SellArgsChecked(s, from, msg.sell)

viewPortfolio(s, from) ==
  Result(s, IF ~Has(s.portfolios, from) \/ DOMAIN s.portfolios[from] = {}
              THEN "portfolio_empty" ELSE "portfolio")

viewTrending(s) ==
  Result(s, IF DOMAIN s.launchedTokens = {} THEN "trending_none" ELSE "trending")

(***************************************************************************)
(* Main message handler                                                    *)
(***************************************************************************)
\* handleIncoming, lines 389-391: what is returned after tryImportWallet returned r,
\* the stores being as tryImportWallet left them
ImportReply(r) ==
  IF r.success THEN Result(r.s, "wallet_imported") ELSE Result(r.s, "import_invalid")

\* handleIncoming, lines 382-391: an explicit /import command
ImportCommand(s, from, msg) ==
  IF Len(msg.parts) <= 1 THEN Result(s, "import_usage")
  ELSE ImportReply(tryImportWallet(s, from, join(Tail(msg.parts))))

\* handleIncoming, lines 396-398: what is returned after tryImportWallet returned r
PastedReply(r) ==
  IF r.success THEN Result(r.s, "wallet_imported") ELSE Result(r.s, "onboarding")

\* handleIncoming, lines 394-409: pasted key material, else the onboarding prompt
PastedKey(s, from, msg) == PastedReply(tryImportWallet(s, from, msg.text))

\* faulty variant of Branch: commands are routed without asking for a wallet
BranchWithoutWalletGate(s, from, msg) ==
  IF ~Has(s.userWallets, from) /\ msg.isImport THEN "import"
  ELSE IF ~Has(s.userWallets, from) /\ msg.likelyKey THEN "pasted_key"
  ELSE IF Has(s.userState, from) /\ startsWith(s.userState[from].step, "launch_")
    THEN "continue_launch"
  ELSE IF Has(s.userState, from) /\ startsWith(s.userState[from].step, "buy_")
    THEN "continue_buy"
  ELSE msg.command

\* faulty variant of Branch: imports are taken up whether or not a wallet is on file
BranchImportAnytime(s, from, msg) ==
  IF msg.isImport THEN "import"
  ELSE IF msg.likelyKey THEN "pasted_key"
  ELSE IF ~Has(s.userWallets, from) THEN "onboarding"
  ELSE IF Has(s.userState, from) /\ startsWith(s.userState[from].step, "launch_")
    THEN "continue_launch"
  ELSE IF Has(s.userState, from) /\ startsWith(s.userState[from].step, "buy_")
    THEN "continue_buy"
  ELSE msg.command

\* faulty variant of Branch: a command is recognised before an active flow is continued
BranchCommandFirst(s, from, msg) ==
  IF ~Has(s.userWallets, from)
    THEN (IF msg.isImport THEN "import"
          ELSE IF msg.likelyKey THEN "pasted_key"
          ELSE "onboarding")
  ELSE IF msg.command # "menu" THEN msg.command
  ELSE IF Has(s.userState, from) /\ startsWith(s.userState[from].step, "launch_")
    THEN "continue_launch"
  ELSE IF Has(s.userState, from) /\ startsWith(s.userState[from].step, "buy_")
    THEN "continue_buy"
  ELSE msg.command

\* which branch of handleIncoming handles msg for sender `from` in stores s
Branch(s, from, msg) ==
  IF ~Has(s.userWallets, from)
    THEN (IF msg.isImport THEN "import"
          ELSE IF msg.likelyKey THEN "pasted_key"
          ELSE "onboarding")
  ELSE IF Has(s.userState, from) /\ startsWith(s.userState[from].step, "launch_")
    THEN "continue_launch"
  ELSE IF Has(s.userState, from) /\ startsWith(s.userState[from].step, "buy_")
    THEN "continue_buy"
  ELSE msg.command

\* handleIncoming after line 377, b the branch taken
Dispatch(s, from, msg, b) ==
  IF b = "import" THEN ImportCommand(s, from, msg)
  ELSE IF b = "pasted_key" THEN PastedKey(s, from, msg)
  ELSE IF b = "onboarding" THEN Result(s, "onboarding")
  ELSE IF b = "continue_launch" THEN continueLaunchFlow(s, from, msg)
  ELSE IF b = "continue_buy" THEN continueBuyFlow(s, from, msg)
  ELSE IF b = "launch" THEN startLaunchFlow(s, from)
  ELSE IF b = "instant_buy" THEN handleInstantBuy(s, from, msg)
  ELSE IF b = "buy_menu" THEN startBuyFlow_selectTicker(s, from)
  ELSE IF b = "portfolio" THEN viewPortfolio(s, from)
  ELSE IF b = "trending" THEN viewTrending(s)
  ELSE IF b = "buy_text" THEN handleInstantBuy(s, from, msg)
  ELSE IF b = "sell" THEN handleSellCommand(s, from, msg)
  ELSE IF b = "ping" THEN Result(s, "pong")
  ELSE Result(s, "main_menu")

Handle(s, from, msg) == Dispatch(s, from, msg, Branch(s, from, msg))

handleIncoming(s, from, rawBody) == Handle(s, from, Message(rawBody))

(***************************************************************************)
(* The state machine: one action per branch of handleIncoming, each the    *)
(* whole handling of one inbound message (app.post("/incoming") runs       *)
(* handleIncoming to completion before the next request is taken up).      *)
(***************************************************************************)
\* finite token counts stay within the bound of the model
Small(n) == n.k = "fin" => n.w <= MaxTokens
Within(s) ==
  /\ Small(s.globalTokensSold)
  /\ \A u \in DOMAIN s.portfolios : \A t \in DOMAIN s.portfolios[u] : Small(s.portfolios[u][t])

\* the stores become those of r
Store(r) ==
  /\ Within(r.s)
  /\ userWallets' = r.s.userWallets
  /\ userState' = r.s.userState
  /\ launchedTokens' = r.s.launchedTokens
  /\ portfolios' = r.s.portfolios
  /\ globalTokensSold' = r.s.globalTokensSold

\* a message is received and handled, with result r, in one step
Deliver(r) == Store(r) /\ UNCHANGED inflight

\* where user u stands in the conversation
Where(u) ==
  IF ~Has(userWallets, u) THEN "no_wallet"
  ELSE IF Has(userState, u) THEN userState[u].step
  ELSE "idle"

\* the messages the model lets user u send where u stands
Inbox(u) ==
  LET w == Where(u)
  IN IF w = "no_wallet"
       THEN {"/import", "/import abc", SeedPhrase, "[1,2,3]", "/launch", "hello"}
              \cup (IF u = FirstUser THEN {"/import " \o Base58Key} ELSE {JsonKey})
     ELSE IF w = "idle" THEN CommandMsgs \cup {"/import " \o Base58Key}
     ELSE IF w = "launch_name" THEN NameMsgs
     ELSE IF w = "launch_ticker" THEN TickerMsgs
     ELSE IF w = "launch_supply" THEN SupplyMsgs
     ELSE IF w = "launch_liquidity" THEN LiquidityMsgs
     ELSE IF w = "launch_description" THEN DescriptionMsgs
     ELSE IF w = "launch_community" THEN CommunityMsgs
     ELSE IF w = "launch_confirm" THEN ConfirmMsgs
     ELSE IF w = "buy_select_ticker" THEN SelectMsgs
     ELSE AmountMsgs

Takes(u, m, branch) == Branch(Stores, u, Message(m)) = branch

Import ==
  \E u \in Users : \E m \in Inbox(u) :
    Takes(u, m, "import") /\ Deliver(ImportCommand(Stores, u, Message(m)))

PasteKey ==
  \E u \in Users : \E m \in Inbox(u) :
    Takes(u, m, "pasted_key") /\ Deliver(PastedKey(Stores, u, Message(m)))

Onboarding ==
  \E u \in Users : \E m \in Inbox(u) :
    Takes(u, m, "onboarding") /\ Deliver(Result(Stores, "onboarding"))

ContinueLaunch ==
  \E u \in Users : \E m \in Inbox(u) :
    Takes(u, m, "continue_launch") /\ Deliver(continueLaunchFlow(Stores, u, Message(m)))

ContinueBuy ==
  \E u \in Users : \E m \in Inbox(u) :
    Takes(u, m, "continue_buy") /\ Deliver(continueBuyFlow(Stores, u, Message(m)))

StartLaunch ==
  \E u \in Users : \E m \in Inbox(u) :
    Takes(u, m, "launch") /\ Deliver(startLaunchFlow(Stores, u))

InstantBuyCommand ==
  \E u \in Users : \E m \in Inbox(u) :
    Takes(u, m, "instant_buy") /\ Deliver(handleInstantBuy(Stores, u, Message(m)))

StartBuy ==
  \E u \in Users : \E m \in Inbox(u) :
    Takes(u, m, "buy_menu") /\ Deliver(startBuyFlow_selectTicker(Stores, u))

Portfolio ==
  \E u \in Users : \E m \in Inbox(u) :
    Takes(u, m, "portfolio") /\ Deliver(viewPortfolio(Stores, u))

Trending ==
  \E u \in Users : \E m \in Inbox(u) :
    Takes(u, m, "trending") /\ Deliver(viewTrending(Stores))

BuyText ==
  \E u \in Users : \E m \in Inbox(u) :
    Takes(u, m, "buy_text") /\ Deliver(handleInstantBuy(Stores, u, Message(m)))

SellCommand ==
  \E u \in Users : \E m \in Inbox(u) :
    Takes(u, m, "sell") /\ Deliver(handleSellCommand(Stores, u, Message(m)))

Ping ==
  \E u \in Users : \E m \in Inbox(u) :
    Takes(u, m, "ping") /\ Deliver(Result(Stores, "pong"))

MainMenu ==
  \E u \in Users : \E m \in Inbox(u) :
    Takes(u, m, "menu") /\ Deliver(Result(Stores, "main_menu"))

Init ==
  /\ userWallets = EmptyMap
  /\ userState = EmptyMap
  /\ launchedTokens = EmptyMap
  /\ portfolios = EmptyMap
  /\ globalTokensSold = Fin(0)
  /\ inflight = EmptyBag

Next ==
  \/ Import
  \/ PasteKey
  \/ Onboarding
  \/ ContinueLaunch
  \/ ContinueBuy
  \/ StartLaunch
  \/ InstantBuyCommand
  \/ StartBuy
  \/ Portfolio
  \/ Trending
  \/ BuyText
  \/ SellCommand
  \/ Ping
  \/ MainMenu

Spec == Init /\ [][Next]_vars

(***************************************************************************)
(* The webhook with requests in flight.  Requests reach the server while   *)
(* others wait for their callback; the callback of app.post("/incoming")   *)
(* is a synchronous function, so each runs handleIncoming to completion    *)
(* before the event loop takes up the next one, in any order.              *)
(***************************************************************************)
\* the number of requests the model lets wait at a time
MaxInFlight == 2

\* req.body.From and req.body.Body
Request(from, body) == [from |-> from, body |-> body]

\* a request of user u waits for its callback
Waiting(u) == \E req \in BagToSet(inflight) : req.from = u

\* the messages the model lets user u send to the webhook where u stands: commands
\* are sent at any time, also in quick succession; a prompt of the launch flow is
\* answered once no earlier message of the user waits
WebhookInbox(u) ==
  LET w == Where(u)
  IN IF w = "no_wallet"
       THEN (IF u = FirstUser THEN {"/import " \o Base58Key} ELSE {JsonKey})
     ELSE IF w = "idle" THEN
       (IF u = FirstUser /\ DOMAIN launchedTokens = {}
          THEN {"/launch"} ELSE {"/buy $CKING 0.000002"})
     ELSE IF Waiting(u) THEN {}
     ELSE IF w = "launch_name" THEN {"Pepe King"}
     ELSE IF w = "launch_ticker" THEN {"$cking"}
     ELSE IF w = "launch_supply" THEN {"50"}
     ELSE IF w = "launch_liquidity" THEN {"0.5"}
     ELSE IF w = "launch_description" THEN {"to the moon"}
     ELSE IF w = "launch_community" THEN {"t.me/pepeking"}
     ELSE IF w = "launch_confirm" THEN {"launch"}
     ELSE {}

\* a request reaches the server; its callback has not run yet
Arrive ==
  \E u \in Users : \E m \in WebhookInbox(u) :
    /\ BagCardinality(inflight) < MaxInFlight
    /\ inflight' = inflight (+) SetToBag({Request(u, m)})
    /\ UNCHANGED <<userWallets, userState, launchedTokens, portfolios, globalTokensSold>>

\* faulty variant of Respond: what the handler adds to the cumulative volume is lost
RespondLosingVolume(s, req) ==
  [handleIncoming(s, req.from, req.body) EXCEPT !.s.globalTokensSold = s.globalTokensSold]

\* the callback: const reply = handleIncoming(from, body)
Respond(s, req) == handleIncoming(s, req.from, req.body)

\* the callback of one waiting request runs, from its first line to its last
Callback ==
  \E req \in BagToSet(inflight) :
    /\ Store(Respond(Stores, req))
    /\ inflight' = inflight (-) SetToBag({req})

NextWebhook ==
  \/ Arrive
  \/ Callback

SpecWebhook == Init /\ [][NextWebhook]_vars

(***************************************************************************)
(* Properties.  A property about what a message does is stated over every  *)
(* reachable state and every message of Msgs: handleIncoming(Stores, u, m) *)
(* is what the handler makes of the stores when u sends m there.           *)
(***************************************************************************)
Idle(u) == Has(userWallets, u) /\ ~Has(userState, u)

\* portfolios[u][t] as stored, 0 where there is no entry
Holdings(u, t) ==
  IF Has(portfolios, u) /\ Has(portfolios[u], t) THEN portfolios[u][t] ELSE Fin(0)

\* C1: once a ticker is registered its Token Registry record stays exactly the
\* first record: no later message removes or replaces it.
C1_RegistryRecordIsKept ==
  [][\A t \in DOMAIN launchedTokens :
       t \in DOMAIN launchedTokens' /\ launchedTokens'[t] = launchedTokens[t]]_vars

\* the sell message m of idle user u names a ticker and a quantity greater than what
\* u holds of it
SellsBeyondHoldings(u, m) ==
  /\ Idle(u)
  /\ Message(m).command = "sell"
  /\ Len(Message(m).parts) >= 2
  /\ Message(m).sell.ticker # ""
  /\ Message(m).sell.amount.k \in {"fin", "inf"}
  /\ Gt(Message(m).sell.amount, Holdings(u, Message(m).sell.ticker))

\* C2: a sell of more than the user holds (holdings of 0 or no entry included) fails
\* and changes no holdings and not the cumulative volume; nothing is clamped.
C2_SellBeyondHoldingsFails ==
  \A u \in Users : \A m \in Msgs :
    SellsBeyondHoldings(u, m) =>
      handleIncoming(Stores, u, m) = Result(Stores, "sell_not_held")

\* C2 happens: a user who holds some of a ticker asks to sell a larger finite quantity
C2_Witness ==
  \E u \in Users : \E m \in Msgs :
    /\ SellsBeyondHoldings(u, m)
    /\ Message(m).sell.amount.k = "fin"
    /\ Holdings(u, Message(m).sell.ticker).k = "fin"
    /\ Holdings(u, Message(m).sell.ticker).w >= 1

\* C3: every portfolio entry holds a non-negative integer quantity.
C3_HoldingsAreNaturals ==
  \A u \in DOMAIN portfolios : \A t \in DOMAIN portfolios[u] :
    /\ portfolios[u][t].k = "fin"
    /\ ~portfolios[u][t].neg
    /\ portfolios[u][t].f = 0

\* the market price, in units of BASE_PRICE / 1e7
Price == getTokenPrice(globalTokensSold)
PriceAtLeastBase == Le(getTokenPrice(Fin(0)), Price)
BuyMessage == InstantBuyCommand \/ BuyText \/ ContinueBuy

\* C4: the price is never lower after a buy than before it, never higher after a
\* sell than before it, and in every state at least the base price.
C4_PriceMonotoneAboveBase ==
  /\ []PriceAtLeastBase
  /\ [][BuyMessage => ~Lt(Price', Price)]_vars
  /\ [][SellCommand => ~Gt(Price', Price)]_vars

\* floor(sol / price) in IEEE arithmetic, for sol > 0 below one SOL or +Infinity
FloorQuotient(sol, price) ==
  IF sol.k = "fin" /\ price.k = "fin" THEN Fin((sol.f * SCALE) \div price.w)
  ELSE IF sol.k = "fin" /\ price.k = "inf" THEN Fin(0)
  ELSE IF sol.k = "inf" /\ price.k = "fin" THEN Infinity
  ELSE NaN

\* the ticker and the SOL amount of the buy that message m of user u asks for
BuyOrder(u, m) ==
  IF Has(userState, u)
    THEN [ticker |-> userState[u].data.ticker, sol |-> Message(m).number]
    ELSE [ticker |-> Message(m).instant.ticker, sol |-> Message(m).instant.solAmount]

\* the stores r.s differ from the present ones by u being credited q of ticker t,
\* the cumulative volume being up by q, and u's buy flow, if any, being over
Credited(r, u, t, q) ==
  /\ r.s.portfolios[u][t] = Plus(OrElse(Holdings(u, t), Fin(0)), q)
  /\ r.s.globalTokensSold = Plus(globalTokensSold, q)
  /\ \A v \in Users \ {u} :
       /\ Has(r.s.portfolios, v) = Has(portfolios, v)
       /\ Has(portfolios, v) => r.s.portfolios[v] = portfolios[v]

\* C5: a successful buy credits the buyer with exactly floor(solAmount / price before
\* the trade), raises the cumulative volume by the same quantity, and changes no
\* other user's holdings.
C5_BuyCreditsFloorOfQuotient ==
  \A u \in Users : \A m \in Msgs :
    /\ handleIncoming(Stores, u, m).reply \in {"buy_bought", "buy_flow_bought"}
    /\ (BuyOrder(u, m).sol.k = "inf" \/ SolModelled(BuyOrder(u, m).sol))
    => Credited(handleIncoming(Stores, u, m), u, BuyOrder(u, m).ticker,
               FloorQuotient(BuyOrder(u, m).sol, Price))

\* the guided buy flow: the menu choice, the ticker, then the amount
GuidedBuy(s, u, select, amount) ==
  handleIncoming(handleIncoming(handleIncoming(s, u, "2").s, u, select).s, u, amount)

\* a ticker as typed in the flow with an amount, and the instant command for the same
BuyPairs ==
  {[select |-> "$cking", amount |-> a, instant |-> "/buy $CKING " \o a] :
     a \in {"0.000002", "0.00003", "Infinity", "0"}}

\* C6: from the same state, the guided buy flow completed with ticker T and amount A
\* and the instant buy command for T and A leave identical stores, with no active
\* flow for the user.
C6_GuidedAndInstantBuyAgree ==
  \A u \in Users : \A p \in BuyPairs :
    Idle(u) =>
      /\ (GuidedBuy(Stores, u, p.select, p.amount).reply = "buy_flow_bought")
           = (handleIncoming(Stores, u, p.instant).reply = "buy_bought")
      /\ GuidedBuy(Stores, u, p.select, p.amount).reply = "buy_flow_bought" =>
           /\ GuidedBuy(Stores, u, p.select, p.amount).s
                = handleIncoming(Stores, u, p.instant).s
           /\ ~Has(GuidedBuy(Stores, u, p.select, p.amount).s.userState, u)

\* C6 happens: an idle user for whom a guided buy completes and credits tokens
C6_Witness ==
  \E u \in Users : \E p \in BuyPairs :
    /\ Idle(u)
    /\ GuidedBuy(Stores, u, p.select, p.amount).reply = "buy_flow_bought"
    /\ GuidedBuy(Stores, u, p.select, p.amount).s.globalTokensSold # globalTokensSold

\* r.s differs from the present stores at most by u's new wallet and u's portfolio
\* having been initialised
OnlyImported(r, u) ==
  /\ Has(r.s.userWallets, u)
  /\ \A v \in Users \ {u} :
       /\ Has(r.s.userWallets, v) = Has(userWallets, v)
       /\ Has(userWallets, v) => r.s.userWallets[v] = userWallets[v]
  /\ r.s.userState = userState
  /\ r.s.launchedTokens = launchedTokens
  /\ r.s.globalTokensSold = globalTokensSold
  /\ r.s.portfolios = IF Has(portfolios, u) THEN portfolios ELSE Put(portfolios, u, EmptyMap)

\* C7: while a user has no wallet, no message of that user but a successful import
\* changes any state, and only a successful import gives the user a wallet.
C7_NoWalletOnlyImportActs ==
  \A u \in Users : \A m \in Msgs :
    ~Has(userWallets, u) =>
      \/ handleIncoming(Stores, u, m).s = Stores
      \/ /\ handleIncoming(Stores, u, m).reply = "wallet_imported"
         /\ Message(m).isImport \/ Message(m).likelyKey
         /\ OnlyImported(handleIncoming(Stores, u, m), u)

\* C7 happens: a user without a wallet while a token is live and another user trades
C7_Witness ==
  \E u \in Users :
    /\ ~Has(userWallets, u)
    /\ DOMAIN launchedTokens # {}
    /\ \E v \in Users \ {u} : Has(userState, v)

\* the key material message m carries: what follows /import, else the whole body
KeyMaterial(m) ==
  IF Message(m).isImport THEN join(Tail(Message(m).parts)) ELSE Message(m).text

\* C8: an import attempt (explicit command or pasted text taken for a key) whose key
\* material does not decode and validate leaves the Wallet Registry unchanged.
C8_FailedImportKeepsRegistry ==
  \A u \in Users : \A m \in Msgs :
    /\ ~Has(userWallets, u)
    /\ Message(m).isImport \/ Message(m).likelyKey
    /\ PublicKeyOf(trim(KeyMaterial(m))) = ""
    => handleIncoming(Stores, u, m).s.userWallets = userWallets

\* C8 happens: a user without a wallet while the registry holds another user's wallet
C8_Witness ==
  \E u \in Users :
    /\ ~Has(userWallets, u)
    /\ \E v \in Users \ {u} : Has(userWallets, v)
    /\ \E m \in Msgs : Message(m).likelyKey /\ PublicKeyOf(trim(KeyMaterial(m))) = ""

\* C9: a wallet once created is never changed or removed by any message of any user.
C9_WalletIsConstant ==
  \A v \in Users : \A m \in Msgs :
    LET after == handleIncoming(Stores, v, m).s.userWallets
    IN \A u \in DOMAIN userWallets : Has(after, u) /\ after[u] = userWallets[u]

\* C9 happens: a user with a wallet for whom a message carries another valid key
C9_Witness ==
  \E u \in DOMAIN userWallets : \E m \in Msgs :
    /\ PublicKeyOf(trim(KeyMaterial(m))) # ""
    /\ PublicKeyOf(trim(KeyMaterial(m))) # userWallets[u].publicKey

\* the flow a step belongs to
FlowOf(step) == IF startsWith(step, "launch_") THEN "launch" ELSE "buy"

\* C10: while a user has an active flow every message of that user is consumed by the
\* flow's step handler: none acts as a command, starts another flow, buys instantly
\* or sells, and the flow ends only by completing or by cancel at launch_confirm.
C10_ActiveFlowConsumesMessages ==
  \A u \in Users : \A m \in Msgs :
    Has(userState, u) =>
      LET step == userState[u].step
          r == handleIncoming(Stores, u, m)
      IN /\ r = IF FlowOf(step) = "launch"
                  THEN continueLaunchFlow(Stores, u, Message(m))
                  ELSE continueBuyFlow(Stores, u, Message(m))
         /\ r.s.userWallets = userWallets
         /\ \A v \in Users \ {u} :
              /\ Has(r.s.userState, v) = Has(userState, v)
              /\ Has(userState, v) => r.s.userState[v] = userState[v]
         /\ r.s.launchedTokens # launchedTokens =>
              step = "launch_confirm" /\ r.reply = "launch_live"
         /\ r.s.portfolios # portfolios =>
              step = "buy_amount" /\ r.reply = "buy_flow_bought"
         /\ r.s.globalTokensSold # globalTokensSold =>
              r.reply \in {"launch_live", "buy_flow_bought"}
         /\ IF Has(r.s.userState, u)
              THEN FlowOf(r.s.userState[u].step) = FlowOf(step)
              ELSE \/ step = "launch_confirm" /\ r.reply \in {"launch_live", "launch_cancelled"}
                   \/ step = "buy_amount" /\ r.reply = "buy_flow_bought"

\* C10 happens: a user in a flow who holds tokens a sell command would sell
C10_Witness ==
  \E u \in Users :
    /\ Has(userState, u)
    /\ Holdings(u, "CKING").k = "fin"
    /\ Holdings(u, "CKING").w >= 1

\* the steps of a launch flow in the order of continueLaunchFlow, with the field of
\* st.data each step collects
LaunchOrder ==
  <<"launch_name", "launch_ticker", "launch_supply", "launch_liquidity",
    "launch_description", "launch_community", "launch_confirm">>
LaunchFields == <<"name", "ticker", "supply", "liquidity", "description", "community">>
StepIndex(step) == CHOOSE i \in 1..Len(LaunchOrder) : LaunchOrder[i] = step
InLaunch(u) == Has(userState, u) /\ FlowOf(userState[u].step) = "launch"

\* the fields the steps before step number i collect
CollectedBefore(i) == {LaunchFields[j] : j \in 1..(i - 1)}

\* C11: a launch flow visits its steps in the order name, ticker, supply, liquidity,
\* description, community link, confirmation: a message keeps the flow at its step
\* or moves it to the next one, never back and never past one, a flow starts at the
\* name step, and a token is registered only from the confirmation step with the six
\* fields collected.
C11_LaunchStepsInOrder ==
  \A u \in Users : \A m \in Msgs :
    LET r == handleIncoming(Stores, u, m)
    IN /\ Idle(u) /\ Has(r.s.userState, u) /\ FlowOf(r.s.userState[u].step) = "launch" =>
            r.s.userState[u].step = "launch_name"
       /\ InLaunch(u) =>
            /\ \E i \in 1..Len(LaunchOrder) : LaunchOrder[i] = userState[u].step
            /\ CollectedBefore(StepIndex(userState[u].step)) \subseteq DOMAIN userState[u].data
            /\ IF Has(r.s.userState, u)
                 THEN /\ r.s.launchedTokens = launchedTokens
                      /\ \/ r.s.userState[u].step = userState[u].step
                         \/ /\ userState[u].step # "launch_confirm"
                            /\ r.s.userState[u].step
                                 = LaunchOrder[StepIndex(userState[u].step) + 1]
                 ELSE userState[u].step = "launch_confirm"
            /\ r.s.launchedTokens # launchedTokens => r.reply = "launch_live"

\* C11 happens: a user at the confirmation step, the six fields collected, for whom
\* an accept reply registers the token
C11_Witness ==
  \E u \in Users : \E m \in Msgs :
    /\ InLaunch(u)
    /\ userState[u].step = "launch_confirm"
    /\ CollectedBefore(Len(LaunchOrder)) \subseteq DOMAIN userState[u].data
    /\ handleIncoming(Stores, u, m).reply = "launch_live"

\* the number typed at the supply step, thousands separators dropped
SupplyTyped == [m \in Msgs |-> parseFloat(replaceAll(trim(m), ","))]

\* message m is not a positive integer of at most 1,000,000,000
InvalidSupply(m) ==
  \/ SupplyTyped[m].k # "fin"
  \/ SupplyTyped[m].f # 0
  \/ Le(SupplyTyped[m], Fin(0))
  \/ Gt(SupplyTyped[m], Fin(MAX_SUPPLY))

\* message m is an invalid input at the step user u's launch flow is at
InvalidLaunchInput(u, m) ==
  /\ InLaunch(u)
  /\ \/ /\ userState[u].step = "launch_ticker"
        /\ ~Message(m).validTicker \/ Has(launchedTokens, Message(m).ticker)
     \/ /\ userState[u].step = "launch_supply"
        /\ InvalidSupply(m)
     \/ /\ userState[u].step = "launch_liquidity"
        /\ isNaN(Message(m).number) \/ Lt(Message(m).number, Num("fin", FALSE, 0, 500000))

\* C12: an invalid input at the ticker step (bad format or already registered), the
\* supply step (not a positive integer, or above 1,000,000,000) or the liquidity step
\* (not a number, or below 0.5) leaves the flow at the same step, registers no token
\* and changes neither the cumulative volume nor any holdings.
C12_InvalidLaunchInputStays ==
  \A u \in Users : \A m \in Msgs :
    InvalidLaunchInput(u, m) =>
      /\ Has(handleIncoming(Stores, u, m).s.userState, u)
      /\ handleIncoming(Stores, u, m).s.userState[u].step = userState[u].step
      /\ handleIncoming(Stores, u, m).s.launchedTokens = launchedTokens
      /\ handleIncoming(Stores, u, m).s.globalTokensSold = globalTokensSold
      /\ handleIncoming(Stores, u, m).s.portfolios = portfolios

AtConfirm(u) == InLaunch(u) /\ userState[u].step = "launch_confirm"

\* the token user u has drafted, as the Token Registry is to hold it
Drafted(u) ==
  [name |-> userState[u].data.name, ticker |-> userState[u].data.ticker,
   supply |-> userState[u].data.supply, liquidity |-> userState[u].data.liquidity,
   description |-> userState[u].data.description,
   community |-> userState[u].data.community,
   owner |-> userWallets[u].publicKey]

\* C13: at the launch confirmation step an accept reply registers the drafted token
\* and clears the flow; a cancel reply (one that is not also an accept) clears the flow
\* and changes nothing else; any other reply leaves the flow at the confirmation step
\* and all stores as they are.
C13_ConfirmStepEffects ==
  \A u \in Users : \A m \in Msgs :
    AtConfirm(u) =>
      LET r == handleIncoming(Stores, u, m)
      IN IF Message(m).accept
           THEN /\ ~Has(r.s.userState, u)
                /\ Has(r.s.launchedTokens, userState[u].data.ticker)
                /\ r.s.launchedTokens[userState[u].data.ticker] = Drafted(u)
                /\ r.s.userWallets = userWallets
                /\ r.s.portfolios = portfolios
         ELSE IF Message(m).cancel
           THEN r.s = [Stores EXCEPT !.userState = Del(userState, u)]
         ELSE r.s = Stores

\* C13 happens: a user at the confirmation step while a token is live and held, with
\* an accept, a cancel and another reply to give
C13_Witness ==
  \E u \in Users :
    /\ AtConfirm(u)
    /\ DOMAIN launchedTokens # {}
    /\ \E v \in Users : Holdings(v, "CKING") # Fin(0)
    /\ \E m \in Msgs : Message(m).accept
    /\ \E m \in Msgs : Message(m).cancel /\ ~Message(m).accept
    /\ \E m \in Msgs : ~Message(m).cancel /\ ~Message(m).accept

\* the volume `after` is the volume `before` advanced by exactly 1% of supply: a
\* hundred times the advance is the supply (an infinite or NaN volume stays as it is)
AdvancedByOnePercent(before, after, supply) ==
  IF before.k = "fin"
    THEN after.k = "fin" /\ after.f = 0 /\ (after.w - before.w) * 100 = supply
    ELSE after = before

\* C14: a completed launch of a token with supply S advances the cumulative volume
\* by exactly 1% of S, whatever the valid supply S.
C14_LaunchSeedsOnePercent ==
  \A u \in Users : \A m \in Msgs :
    AtConfirm(u) /\ handleIncoming(Stores, u, m).reply = "launch_live" =>
      AdvancedByOnePercent(globalTokensSold,
                           handleIncoming(Stores, u, m).s.globalTokensSold,
                           userState[u].data.supply.w)

\* message m of idle user u is a sell command for quantity q of ticker t
SellsExactly(m, t, q) ==
  /\ Message(m).command = "sell"
  /\ Len(Message(m).parts) >= 2
  /\ Message(m).sell.ticker = t
  /\ Message(m).sell.amount = q

\* C15: when an idle user buys into ticker T, receiving q > 0 tokens, and then at
\* once sells q tokens of T, the user's holdings of T and the cumulative volume
\* (hence the price) are what they were before the buy.
C15_BuyThenSellRoundTrip ==
  \A u \in Users : \A buy \in Msgs : \A sell \in Msgs :
    LET bought == handleIncoming(Stores, u, buy)
        t == Message(buy).instant.ticker
        q == Message(sell).sell.amount
    IN /\ Idle(u)
       /\ bought.reply = "buy_bought"
       /\ SellsExactly(sell, t, q)
       /\ Gt(q, Fin(0))
       /\ Credited(bought, u, t, q)
       => /\ handleIncoming(bought.s, u, sell).s.portfolios[u][t] = Holdings(u, t)
          /\ handleIncoming(bought.s, u, sell).s.globalTokensSold = globalTokensSold

NotPositive(a) == isNaN(a) \/ Le(a, Fin(0))

\* message m of user u asks for a buy that names a ticker not in the Token Registry
\* or an amount that is not a number greater than 0: as an instant buy (command or
\* free text) of an idle user, or as the reply to the step u's buy flow is at
InvalidBuy(u, m) ==
  \/ /\ Idle(u)
     /\ Message(m).command \in {"instant_buy", "buy_text"}
     /\ Len(Message(m).parts) >= 2
     /\ \/ ~Has(launchedTokens, Message(m).instant.ticker)
        \/ NotPositive(Message(m).instant.solAmount)
  \/ /\ Has(userState, u)
     /\ userState[u].step = "buy_select_ticker"
     /\ ~Has(launchedTokens, Message(m).buyTicker)
  \/ /\ Has(userState, u)
     /\ userState[u].step = "buy_amount"
     /\ NotPositive(Message(m).number)

\* C17: a buy that names an unregistered ticker, or whose amount is not a number
\* greater than 0, changes no holdings and not the cumulative volume on either buy
\* path, and in the guided flow leaves the flow at the step it is at.
C17_InvalidBuyChangesNothing ==
  \A u \in Users : \A m \in Msgs :
    InvalidBuy(u, m) =>
      /\ handleIncoming(Stores, u, m).s.portfolios = portfolios
      /\ handleIncoming(Stores, u, m).s.globalTokensSold = globalTokensSold
      /\ handleIncoming(Stores, u, m).s.userState = userState

\* C17 happens: tokens are held, one user is at the ticker step and one at the amount
\* step of a buy flow or idle, with invalid buys of each kind to send
C17_Witness ==
  /\ \E v \in Users : Holdings(v, "CKING") # Fin(0)
  /\ \E u \in Users : \E m \in Msgs :
       /\ Has(userState, u)
       /\ userState[u].step = "buy_select_ticker"
       /\ InvalidBuy(u, m)
  /\ \E u \in Users : \E m \in Msgs : \E n \in Msgs :
       /\ InvalidBuy(u, m)
       /\ InvalidBuy(u, n)
       /\ \/ Idle(u) /\ ~Has(launchedTokens, Message(m).instant.ticker)
                     /\ Has(launchedTokens, Message(n).instant.ticker)
          \/ Has(userState, u) /\ userState[u].step = "buy_amount"

\* the stores after user u, idle in stores s, has sent the messages of the sequence
\* msgs one after another
RECURSIVE AfterAll(_, _, _)
AfterAll(s, u, msgs) ==
  IF msgs = <<>> THEN s
  ELSE AfterAll(handleIncoming(s, u, Head(msgs)).s, u, Tail(msgs))

\* tickers matching ^[A-Z0-9]{1,8}$ with the messages that launch, buy and sell them
SellProbes ==
  {[ticker |-> "CKING", launch |-> "$cking",
    buy |-> "/buy $CKING 0.000002", sell |-> "/sell $CKING 1"],
   [ticker |-> "TRENDING", launch |-> "$trending",
    buy |-> "/buy $TRENDING 0.000002", sell |-> "/sell $TRENDING 1"]}

\* the stores once idle user u has launched the ticker of probe p, unless it is
\* registered already, and bought into it
HoldingProbe(u, p) ==
  AfterAll(Stores, u,
           (IF Has(launchedTokens, p.ticker) THEN <<>>
            ELSE <<"/launch", "Pepe King", p.launch, "150", "0.5", "to the moon",
                   "t.me/pepeking", "launch">>)
             \o <<p.buy>>)

\* in stores s user u, outside any flow, holds a finite quantity of at least one
\* token of the registered ticker t
HoldsOne(s, u, t) ==
  /\ ~Has(s.userState, u)
  /\ Has(s.launchedTokens, t)
  /\ s.globalTokensSold.k = "fin"
  /\ Held(s, u, t).k = "fin"
  /\ Held(s, u, t).w >= 1

\* in stores s the sell of one token of t that u asks for with message m is carried
\* out: u's holdings of t and the cumulative volume are both down by one
SoldOne(s, u, t, m) ==
  /\ handleIncoming(s, u, m).reply = "sell_sold"
  /\ handleIncoming(s, u, m).s.portfolios[u][t] = Minus(Held(s, u, t), Fin(1))
  /\ handleIncoming(s, u, m).s.globalTokensSold = Minus(s.globalTokensSold, Fin(1))

\* C18: outside any flow, for every registered ticker T matching ^[A-Z0-9]{1,8}$ and
\* every user holding at least n > 0 tokens of T, the message /sell $T n is handled
\* as a sell, lowering the user's holdings of T and the cumulative volume by n; it
\* is routed to no other handler.
C18_SellCommandSells ==
  \A u \in Users : \A p \in SellProbes :
    Idle(u) /\ HoldsOne(HoldingProbe(u, p), u, p.ticker) =>
      SoldOne(HoldingProbe(u, p), u, p.ticker, p.sell)

\* C19: at the name step of a launch flow only non-empty text is accepted: an empty
\* or whitespace-only message leaves the flow at the name step, and no registered
\* token has an empty name.
C19_EmptyNameIsRefused ==
  /\ \A u \in Users : \A m \in Msgs :
       InLaunch(u) /\ userState[u].step = "launch_name" /\ trim(m) = "" =>
         /\ Has(handleIncoming(Stores, u, m).s.userState, u)
         /\ handleIncoming(Stores, u, m).s.userState[u].step = "launch_name"
  /\ \A t \in DOMAIN launchedTokens : launchedTokens[t].name # ""

\* the sum of the quantities q[k] for k in keys
RECURSIVE SumOver(_, _)
SumOver(q, keys) ==
  IF keys = {} THEN Fin(0)
  ELSE LET k == CHOOSE x \in keys : TRUE
       IN Plus(q[k], SumOver(q, keys \ {k}))

\* the total of all users' holdings over all tickers in the portfolios pf
TotalHeld(pf) ==
  SumOver([u \in DOMAIN pf |-> SumOver(pf[u], DOMAIN pf[u])], DOMAIN pf)

\* a step that moves the volume from v to w and the total holdings from g to h moves
\* both by the same quantity
MovedAlike(v, w, g, h) ==
  v.k = "fin" /\ w.k = "fin" /\ g.k = "fin" /\ h.k = "fin" => w.w - v.w = h.w - g.w

\* C20: the cumulative volume is the total of all holdings plus the seed amounts of
\* the completed launches: a step that completes a launch adds its seed and leaves
\* the holdings alone, every other step moves the volume exactly as it moves the
\* total of the holdings (so a sell lowers it by the quantity sold, the floor at zero
\* never taking effect), and the volume is always at least the total of the holdings.
C20_VolumeIsConserved ==
  /\ []Le(TotalHeld(portfolios), globalTokensSold)
  /\ [][IF launchedTokens' # launchedTokens
          THEN /\ portfolios' = portfolios
               /\ Le(globalTokensSold, globalTokensSold')
          ELSE MovedAlike(globalTokensSold, globalTokensSold',
                          TotalHeld(portfolios), TotalHeld(portfolios'))]_vars

=============================================================================
